---- MODULE Spec2Model ----
(***************************************************************************)
(* Execution and dependency handling of the run_python_local MCP server.   *)
(*                                                                         *)
(* The repository holds four revisions of the request handlers:            *)
(*   "venv"   src/src/main.ts 1-480     runPythonCode with --venv          *)
(*   "pep723" src/src/main.ts 481-947   runPythonCode with PEP 723 installs *)
(*   "simple" src/unnamed/part_004      runPython / runPythonCode (v0.3.1)  *)
(*   "local"  src/unnamed/part_005      runLocalPython (bootstrap script)   *)
(* A request runs the handler of one revision.  Text (paths, code) is a    *)
(* sequence of one-character strings.                                      *)
(*                                                                         *)
(* Specifications:                                                         *)
(*   Spec      one request after another, default configuration            *)
(*   BootSpec  main sets the configuration, then requests                  *)
(*   ConcSpec  two run_python_code requests in flight together             *)
(*   PathSpec  the path functions applied to enumerated inputs             *)
(***************************************************************************)
EXTENDS Integers, Sequences, FiniteSets, TLC

\* ------------------------------------------------------------------ bounds
\* Longest PEP 723 `dependencies = [...]` list a request declares.
MaxDeclared == 2

\* ------------------------------------------------------------- vocabulary
Names == {"numpy", "pandas"}

Revisions == {"venv", "pep723", "simple", "local"}

\* What the package index does with a name: "ok" installs and then imports,
\* "stubborn" installs (pip exits 0) but the import still fails, "absent"
\* cannot be installed (pip exits non-zero).
PkgClasses == {"ok", "stubborn", "absent"}

\* What the script does once every import succeeds: "ok" runs to the end,
\* "warn" runs to the end and writes a warning to stderr, "raise" dies with
\* an uncaught exception that is no import error, "exit" calls sys.exit(1).
Behaviours == {"ok", "warn", "raise", "exit"}

Range(s) == {s[i] : i \in DOMAIN s}

Count(s, x) == Cardinality({i \in DOMAIN s : s[i] = x})

SeqsUpTo(S, n) == UNION {[1..k -> S] : k \in 0..n}

\* The code of a request, by what matters to the handlers: the modules it
\* imports, its PEP 723 list as parsed (<<>>: no block), what it does after
\* its imports, whether it writes to stdout.
Programs ==
  [imports : SUBSET Names, declared : SeqsUpTo(Names, MaxDeclared),
   behaviour : Behaviours, prints : BOOLEAN]

VARIABLES
  rev,            \* revision whose handler serves the request
  tool,           \* the tool called: "code" | "file" | "install"
  path,           \* run_python_file: the path argument
  fileExists,     \* run_python_file: the file the handler looks at exists
  pkg,            \* install_python_package: the package name, "": none
  pc,             \* position of the request in its handler
  prog,           \* the request's code / the content of its file
  pkgClass,       \* the package index (fixed)
  importable,     \* modules importable in the interpreter's environment
  importable0,    \* importable when the request started
  staged,         \* the request created its temp file / session directory
  tmpExists,      \* that temp file / session directory is on disk
  unlinkPending,  \* fs.unlink was called and its callback has not run
  fault,          \* the I/O fault injected into the request, or "none"
  runs,           \* interpreter processes spawned by the request
  pipCalls,       \* per name: pip invocations of the request that carry it
  pipExit,        \* exit code of the request's pip run, -1: none
  releases,       \* removals of the temp file / directory the request called
  exitCode,       \* exit code of the interpreter, -1: none
  stdout,         \* the text the interpreter's stdout carried
  stderr,         \* "" | "warning" | "other" | the name a
                  \* ModuleNotFoundError names
  dependencies,   \* const dependencies (main.ts 594) / deps (part_005 100)
  result,         \* the RunResult built; returned when pc = "done"
  spawned,        \* the processes the request started: executable and
                  \* what it was started for
  fsConfig,       \* the mount configuration (fsConfig; VROOT / HOST_DIR)
  platform,       \* Deno.build.os
  mountTable,     \* the mount bindings of the multi-mount resolver
  fn,             \* the path function applied to arg, "none": not yet
  arg,            \* its input text
  ret,            \* its outcome: [ok |-> BOOLEAN, val |-> text]
  now,            \* what Date.now() returns
  nextId,         \* names handed out by Deno.makeTempFile / uuid()
  work,           \* per concurrent request: where it is, the path it
                  \* staged, whose code its interpreter ran
  disk,           \* staged paths on disk -> the request whose code is there
  live,           \* the subprocesses of the request that have not exited
  connected,      \* the client's connection is open
  transports,     \* own keys of the session table of runSse
  open,           \* session ids whose GET /sse connection is open
  post,           \* the last POST /messages: its sessionId and its answer
  setLogLevel,    \* the logging threshold
  hpc,            \* where the tool handler that logs is
  logPromises,    \* sends the handler's logger has collected
  awaitedLogs,    \* the sends Promise.all was called with
  pendingLogs,    \* sends that have not finished
  lastLog,        \* the last call of the logger
  unlinkCb        \* the callback of fs.unlink has not run yet

callVars == <<tool, path, fileExists, pkg>>

reqVars ==
  <<rev, callVars, pc, prog, pkgClass, importable, importable0, staged, tmpExists,
    unlinkPending, fault, runs, pipCalls, pipExit, releases, exitCode,
    stdout, stderr, dependencies, result, spawned, live, connected>>

pathVars == <<fsConfig, platform, mountTable, fn, arg, ret>>

concVars == <<now, nextId, work, disk>>

sseVars == <<transports, open, post>>

logVars ==
  <<setLogLevel, hpc, logPromises, awaitedLogs, pendingLogs, lastLog,
    unlinkCb>>

srvVars == <<sseVars, logVars>>

vars == <<reqVars, pathVars, concVars, srvVars>>

NoResult ==
  [status |-> "none", deps |-> <<>>, output |-> <<>>, error |-> "null"]

Threw ==
  [status |-> "threw", deps |-> <<>>, output |-> <<>>, error |-> "exception"]

Caught ==
  [status |-> "error", deps |-> <<>>, output |-> <<>>, error |-> "exception"]

Failure == {"error", "run-error"}

\* ------------------------------------------------------------ the package manager
\* Mutant: one pip invocation per entry of the list.
PipInvocations_PerEntry(deps) == [i \in DOMAIN deps |-> <<deps[i]>>]

\* `pip install ${dependencies.join(' ')}` : one invocation with every name.
PipInvocations(deps) == <<deps>>

\* pip exits 0 iff it can install every name it was given.
PipExitCode(invs) ==
  IF \A i \in DOMAIN invs : \A n \in Range(invs[i]) : pkgClass[n] # "absent"
  THEN 0 ELSE 1

PipCallsAfter(invs) ==
  [n \in Names |->
     pipCalls[n] + Cardinality({i \in DOMAIN invs : n \in Range(invs[i])})]

ImportableAfter(invs) ==
  IF PipExitCode(invs) = 0
  THEN importable \cup {n \in UNION {Range(invs[i]) : i \in DOMAIN invs} :
                          pkgClass[n] = "ok"}
  ELSE importable

\* ------------------------------------------------------------ the interpreter
\* What the script does with `imp` importable: the first missing import
\* raises ModuleNotFoundError naming it; otherwise its behaviour decides.
ScriptOutcomes(imp) ==
  IF tool = "file" /\ ~fileExists
  THEN {[kind |-> "nofile", name |-> ""]}
  ELSE IF prog.imports \ imp # {}
  THEN {[kind |-> "missing", name |-> n] : n \in prog.imports \ imp}
  ELSE {[kind |-> prog.behaviour, name |-> ""]}

\* Exit code and stderr of `python <file>` for an outcome of the script.
ProcExit(o) ==
  CASE o.kind \in {"ok", "warn"} -> 0
    [] o.kind = "nofile" -> 2
    [] OTHER -> 1

ProcStderr(o) ==
  CASE o.kind = "missing" -> o.name
    [] o.kind \in {"raise", "nofile"} -> "other"
    [] o.kind = "warn" -> "warning"
    [] OTHER -> ""

\* What print("hi") writes.
Hello == <<"h", "i", "\n">>

ProcStdout == IF prog.prints THEN Hello ELSE <<>>

\* text.split('\n'): the pieces between the newlines, empty ones included.
RECURSIVE SplitLines(_)
SplitLines(text) ==
  IF \A i \in DOMAIN text : text[i] # "\n" THEN <<text>>
  ELSE LET k == CHOOSE i \in DOMAIN text :
                  text[i] = "\n" /\ \A j \in 1..(i - 1) : text[j] # "\n"
       IN <<SubSeq(text, 1, k - 1)>>
            \o SplitLines(SubSeq(text, k + 1, Len(text)))

\* The RunResult of the handlers that run `python <file>` themselves.
\* venv  main.ts 115-127, simple part_004 44-46: the exit code decides, a
\* non-zero exit is a value.  pep723 main.ts 605-618: execPromise rejects on
\* a non-zero exit and the catch block answers with dependencies: [].
ErrorText(err) == IF err = "" THEN "exitcode" ELSE err

RunResultOf(r, code, out, err, deps) ==
  IF code = 0
  THEN [status |-> "success",
        deps |-> IF r = "pep723" THEN deps ELSE <<>>,
        output |-> SplitLines(out),
        error |-> IF err = "" THEN "null" ELSE err]
  ELSE [status |-> "error", deps |-> <<>>,
        output |-> IF r = "pep723" /\ out = <<>> THEN <<>> ELSE SplitLines(out),
        error |-> ErrorText(err)]

\* runLocalPython, part_005 136-141: the result is whatever JSON the
\* bootstrap printed; the exit code is read and never used.  `out` is the
\* stdout, `o` the script's outcome, `deps` the bootstrap's deps.
\* What print(json.dumps(out)) writes, and what a pip run writes.
JsonLine == <<"{", "}", "\n">>

PipText == <<"p", "\n">>

LocalResult(out, o, deps) ==
  CASE out = <<>> ->
         [status |-> "undefined", deps |-> <<>>, output |-> <<>>,
          error |-> "null"]
    [] out # <<>> /\ out # JsonLine ->
         [status |-> "run-error", deps |-> <<>>, output |-> <<>>,
          error |-> "parse"]
    [] OTHER ->
         IF o.kind \in {"ok", "warn"}
         THEN [status |-> "success", deps |-> deps, output |-> <<>>,
               error |-> "null"]
         ELSE [status |-> "run-error", deps |-> deps, output |-> <<>>,
               error |-> IF o.kind = "missing" THEN o.name ELSE "other"]

\* ------------------------------------------------------------ control flow
\* Mutant: every revision starts the interpreter right after staging.
AfterStage_RunFirst(r) == "spawn"

\* Where the handler goes once the code is staged.
AfterStage(r) == IF r = "pep723" THEN "install" ELSE "spawn"

\* Whether the temp file / session directory is on disk after staging with
\* fault f.  simple: Deno.makeTempFile created the file before writeTextFile
\* throws; local: mkSessionDir created the directory before the writes.
StagedOnDisk(r, f) ==
  \/ f = "none"
  \/ f = "write" /\ r \in {"simple", "local"}

\* What a failed staging answers: venv and pep723 catch, simple and local
\* let the exception leave the handler.
StageFailure(r) == IF r \in {"venv", "pep723"} THEN Caught ELSE Threw

\* Where the handler goes when the interpreter cannot be spawned, and with
\* what: runPython (simple) catches and its caller still removes the file;
\* venv and pep723 land in the outer catch; local has no try at all.
AfterSpawnFailure(r) == IF r = "simple" THEN "cleanup" ELSE "done"

SpawnFailure(r) == IF r = "local" THEN Threw ELSE Caught

\* Mutant: a failed run is started again.
AfterExit_Retry(r, code) == IF code # 0 THEN "spawn" ELSE "cleanup"

\* Where the handler goes once the interpreter has exited with `code`.
AfterExit(r, code) == IF r = "pep723" /\ code # 0 THEN "done" ELSE "cleanup"

\* Mutant: a removal that fails becomes the request's answer.
AfterRemove_Surfaced(res, failed) == IF failed THEN Caught ELSE res

\* What the handler answers once it has tried to remove what it staged,
\* given the result computed from the run: venv 107-112 logs a failure,
\* simple 56 and local 144-147 swallow it, the callback of pep723 601-603
\* logs it.
AfterRemove(res, failed) == res

\* Orders in which the import scan of find_deps can list a set of modules.
Orderings(S) ==
  {s \in [1..Cardinality(S) -> S] : \A i, j \in DOMAIN s : s[i] = s[j] => i = j}

\* ------------------------------------------------------------ text
Alphabet == {"/", "2", "x"}

\* Longest tail the enumerated inputs append to a mount prefix.
MaxSuffix == 3

StartsWith(s, p) == Len(s) >= Len(p) /\ SubSeq(s, 1, Len(p)) = p

\* s.substring(n) / s.slice(n): what follows the first n characters.
Substring(s, n) == SubSeq(s, n + 1, Len(s))

\* s occurs in t at position i.
OccursAt(t, s, i) ==
  i + Len(s) - 1 <= Len(t) /\ SubSeq(t, i, i + Len(s) - 1) = s

Working == <<"/", "w", "o", "r", "k", "i", "n", "g">>

WorkingData == <<"/", "w", "o", "r", "k", "i", "n", "g", "/", "d", "a", "t", "a">>

DefaultConfig ==
  [mountPoint |-> Working, localPath |-> <<"/", "h">>, venvPath |-> <<>>]

\* The configuration after `--path /g --venv /v`.
VenvConfig ==
  [mountPoint |-> Working, localPath |-> <<"/", "g">>,
   venvPath |-> <<"/", "v">>]

\* What main can set fsConfig to.
Configs == {DefaultConfig, VenvConfig}

Platforms == {"linux", "windows"}

Python == <<"p", "y", "t", "h", "o", "n">>

Python3 == <<"p", "y", "t", "h", "o", "n", "3">>

Pip == <<"p", "i", "p">>

\* Mutant: the configured environment is ignored.
getPythonPath_Ambient == Python

\* getPythonPath (main.ts 59-72).
getPythonPath ==
  IF fsConfig.venvPath # <<>>
  THEN IF platform = "windows"
       THEN fsConfig.venvPath
            \o <<"\\", "S", "c", "r", "i", "p", "t", "s",
                 "\\", "p", "y", "t", "h", "o", "n", ".", "e", "x", "e">>
       ELSE fsConfig.venvPath
            \o <<"/", "b", "i", "n", "/", "p", "y", "t", "h", "o", "n">>
  ELSE Python

\* The executable a revision starts to run a script: venv main.ts 88-93,
\* pep723 598, simple part_004 13, local part_005 116.
Interpreter(r) ==
  CASE r = "venv" -> getPythonPath
    [] r = "local" -> Python3
    [] OTHER -> Python

\* The package manager a revision starts: pep723 main.ts 560, simple
\* part_004 14, local part_005 102 (sys.executable -m pip).
PackageManager(r) == IF r = "local" THEN Python3 ELSE Pip

\* Mutant: the configuration can be set again between requests.
AtStartup_OrIdle(p) == p \in {"boot", "idle"}

\* main runs once, when the process starts (main.ts 475-480).
AtStartup(p) == p = "boot"

\* ------------------------------------------------------------ node:path
\* The segments of a path between its separators, empty ones included.
RECURSIVE Segments(_)
Segments(s) ==
  IF \A i \in DOMAIN s : s[i] # "/" THEN <<s>>
  ELSE LET k == CHOOSE i \in DOMAIN s :
                  s[i] = "/" /\ \A j \in 1..(i - 1) : s[j] # "/"
       IN <<SubSeq(s, 1, k - 1)>> \o Segments(Substring(s, k))

\* normalizeString: drops empty and "." segments, ".." removes the segment
\* before it (and is kept only in a relative path with nothing to remove).
RECURSIVE NormalizeSegments(_, _, _)
NormalizeSegments(segs, acc, abs) ==
  IF segs = <<>> THEN acc
  ELSE LET g == Head(segs)
           up == <<".", ".">>
       IN CASE g = <<>> \/ g = <<".">> -> NormalizeSegments(Tail(segs), acc, abs)
            [] g = up /\ acc # <<>> /\ acc[Len(acc)] # up ->
                 NormalizeSegments(Tail(segs), SubSeq(acc, 1, Len(acc) - 1), abs)
            [] g = up /\ abs -> NormalizeSegments(Tail(segs), acc, abs)
            [] OTHER -> NormalizeSegments(Tail(segs), Append(acc, g), abs)

RECURSIVE JoinSegments(_)
JoinSegments(segs) ==
  IF segs = <<>> THEN <<>>
  ELSE IF Len(segs) = 1 THEN segs[1]
  ELSE segs[1] \o <<"/">> \o JoinSegments(Tail(segs))

\* path.normalize (posix).
Normalize(p) ==
  IF p = <<>> THEN <<".">>
  ELSE LET abs == p[1] = "/"
           trailing == p[Len(p)] = "/"
           body == JoinSegments(NormalizeSegments(Segments(p), <<>>, abs))
       IN IF body = <<>>
          THEN (IF abs THEN <<"/">> ELSE IF trailing THEN <<".", "/">> ELSE <<".">>)
          ELSE (IF abs THEN <<"/">> ELSE <<>>) \o body
               \o (IF trailing THEN <<"/">> ELSE <<>>)

\* path.join(a, b) (posix): empty arguments are skipped.
Join(a, b) ==
  CASE a = <<>> /\ b = <<>> -> <<".">>
    [] a = <<>> -> Normalize(b)
    [] b = <<>> -> Normalize(a)
    [] OTHER -> Normalize(a \o <<"/">> \o b)

\* ------------------------------------------------------------ path functions
Ok(v) == [ok |-> TRUE, val |-> v]

Err == [ok |-> FALSE, val |-> <<>>]

NoRet == [ok |-> FALSE, val |-> <<"-">>]

\* virtualToLocalPath of the venv revision (main.ts 41-48).
virtualToLocalPath(virtualPath) ==
  IF ~StartsWith(virtualPath, fsConfig.mountPoint) THEN Err
  ELSE Ok(fsConfig.localPath
          \o Substring(virtualPath, Len(fsConfig.mountPoint)))

\* virtualToLocalPath of the PEP 723 revision (main.ts 530-537).
virtualToLocalPathJoin(virtualPath) ==
  IF ~StartsWith(virtualPath, fsConfig.mountPoint) THEN Err
  ELSE Ok(Join(fsConfig.localPath,
               Substring(virtualPath, Len(fsConfig.mountPoint))))

\* virtToHost (part_005 36-40): VROOT is fsConfig.mountPoint, HOST_DIR is
\* fsConfig.localPath.
virtToHost(p) ==
  IF ~StartsWith(p, fsConfig.mountPoint \o <<"/">>) THEN Err
  ELSE Ok(Join(fsConfig.localPath, Substring(p, Len(fsConfig.mountPoint) + 1)))

\* code.replace(new RegExp(pat, 'g'), rep) for a pattern of plain
\* characters: every occurrence, left to right, without overlap.
RECURSIVE ReplaceAll(_, _, _)
ReplaceAll(code, pat, rep) ==
  IF Len(code) < Len(pat) \/ pat = <<>> THEN code
  ELSE IF StartsWith(code, pat)
       THEN rep \o ReplaceAll(Substring(code, Len(pat)), pat, rep)
       ELSE <<Head(code)>> \o ReplaceAll(Tail(code), pat, rep)

\* replaceVirtualPaths (main.ts 51-57).
replaceVirtualPaths(code) ==
  Ok(ReplaceAll(code, fsConfig.mountPoint, fsConfig.localPath))

\* What run_python_file hands to the interpreter for its path argument:
\* venv main.ts 142, pep723 625, local part_005 223; runPythonFile of simple
\* (part_004 60-62) passes the argument on as it is.
ResolveFile(r, p) ==
  CASE r = "venv" -> virtualToLocalPath(p)
    [] r = "pep723" -> virtualToLocalPathJoin(p)
    [] r = "local" -> virtToHost(p)
    [] OTHER -> Ok(p)

\* Whether run_python_file looks for the file before it starts anything:
\* Deno.stat (venv 145-149), fs.existsSync (pep723 628-630),
\* Deno.readTextFile (local 224); simple does not.
ChecksFile(r) == r # "simple"

\* Where run_python_file goes once the path is resolved and the file found,
\* and what it answers otherwise: venv and pep723 catch, the handler of
\* local has no try.
AfterResolve(r) ==
  CASE r = "pep723" -> "install"
    [] r = "local" -> "stage"
    [] OTHER -> "spawn"

ResolveFailure(r) == IF r = "local" THEN Threw ELSE Caught

\* Mutant: entries are tried shortest virtual prefix first.
MountOrder_ShortestFirst(table) ==
  CHOOSE s \in [DOMAIN table -> DOMAIN table] :
    /\ \A i, j \in DOMAIN table : s[i] = s[j] => i = j
    /\ \A i, j \in DOMAIN table :
         i < j => Len(table[s[i]].virtualPrefix) <= Len(table[s[j]].virtualPrefix)

\* The longest-prefix resolver over several mounts (spec 4.1; README.md
\* 187-196 documents it, its code is not among the sources).  Entries are
\* tried longest virtual prefix first.
MountOrder(table) ==
  CHOOSE s \in [DOMAIN table -> DOMAIN table] :
    /\ \A i, j \in DOMAIN table : s[i] = s[j] => i = j
    /\ \A i, j \in DOMAIN table :
         i < j => Len(table[s[i]].virtualPrefix) >= Len(table[s[j]].virtualPrefix)

Covers(e, virtualPath) ==
  \/ virtualPath = e.virtualPrefix
  \/ StartsWith(virtualPath, e.virtualPrefix \o <<"/">>)

resolveVirtualToHost(table, virtualPath) ==
  LET order == MountOrder(table)
      hits == {i \in DOMAIN table : Covers(table[order[i]], virtualPath)}
  IN IF hits = {} THEN Err
     ELSE LET e == table[order[CHOOSE i \in hits : \A j \in hits : i <= j]]
          IN Ok(e.hostPath \o Substring(virtualPath, Len(e.virtualPrefix)))

\* The symmetric rule over host paths (spec 4.1): entries are tried longest
\* host path first, the first whose host path equals the input or is
\* followed in it by a separator wins.
HostOrder(table) ==
  CHOOSE s \in [DOMAIN table -> DOMAIN table] :
    /\ \A i, j \in DOMAIN table : s[i] = s[j] => i = j
    /\ \A i, j \in DOMAIN table :
         i < j => Len(table[s[i]].hostPath) >= Len(table[s[j]].hostPath)

CoversHost(e, hostPath) ==
  \/ hostPath = e.hostPath
  \/ StartsWith(hostPath, e.hostPath \o <<"/">>)

\* Mutant: the tail is cut at the length of the virtual prefix.
resolveHostToVirtual_WrongOffset(table, hostPath) ==
  LET order == HostOrder(table)
      hits == {i \in DOMAIN table : CoversHost(table[order[i]], hostPath)}
  IN IF hits = {} THEN Err
     ELSE LET e == table[order[CHOOSE i \in hits : \A j \in hits : i <= j]]
          IN Ok(e.virtualPrefix \o Substring(hostPath, Len(e.virtualPrefix)))

resolveHostToVirtual(table, hostPath) ==
  LET order == HostOrder(table)
      hits == {i \in DOMAIN table : CoversHost(table[order[i]], hostPath)}
  IN IF hits = {} THEN Err
     ELSE LET e == table[order[CHOOSE i \in hits : \A j \in hits : i <= j]]
          IN Ok(e.virtualPrefix \o Substring(hostPath, Len(e.hostPath)))

\* resolveVirtualToHost followed by the reverse lookup on its result.
roundTrip(table, virtualPath) ==
  LET host == resolveVirtualToHost(table, virtualPath)
  IN IF host.ok THEN resolveHostToVirtual(table, host.val) ELSE Err

\* ------------------------------------------------------------ path inputs
OverlapTable ==
  <<[virtualPrefix |-> Working, hostPath |-> <<"A">>],
    [virtualPrefix |-> WorkingData, hostPath |-> <<"B">>]>>

\* Two mounts whose virtual prefixes and host paths are unrelated.
DisjointTable ==
  <<[virtualPrefix |-> Working, hostPath |-> <<"A">>],
    [virtualPrefix |-> <<"/", "x">>, hostPath |-> <<"B", "B">>]>>

\* Two mounts with unrelated virtual prefixes, the host directory of one
\* inside the host directory of the other.
HostNestedTable ==
  <<[virtualPrefix |-> Working, hostPath |-> <<"A">>],
    [virtualPrefix |-> <<"/", "x">>, hostPath |-> <<"A", "/", "x">>]>>

MountTables ==
  {OverlapTable,
   <<OverlapTable[2], OverlapTable[1]>>,
   <<OverlapTable[1]>>,
   DisjointTable,
   <<DisjointTable[2], DisjointTable[1]>>,
   HostNestedTable}

DataXCsv == <<"/", "w", "o", "r", "k", "i", "n", "g", "/", "d", "a", "t", "a", "/", "x", ".", "c", "s", "v">>

OtherTxt == <<"/", "w", "o", "r", "k", "i", "n", "g", "/", "o", "t", "h", "e", "r", ".", "t", "x", "t">>

Working2X == <<"/", "w", "o", "r", "k", "i", "n", "g", "2", "/", "x">>

InsideFile == <<"/", "w", "o", "r", "k", "i", "n", "g", "/", "x">>

OutsideFile == <<"/", "x">>

\* The path arguments of the run_python_file requests.
FilePaths == {InsideFile, Working2X, OutsideFile}

PathInputs ==
  {a \o b \o c : a \in {<<>>, <<"x">>}, b \in {<<>>, Working, WorkingData},
                 c \in SeqsUpTo(Alphabet, MaxSuffix)}
    \cup {DataXCsv, OtherTxt, Working2X}

\* ------------------------------------------------------------ concurrency
\* Latest reading of the clock.
MaxClock == 1

\* The requests in flight together.
Reqs == {1, 2}

\* The path a run_python_code request stages its code at: venv main.ts 84
\* and pep723 590 name it after the clock, simple part_004 53 takes a fresh
\* name from Deno.makeTempFile, local part_005 31 a fresh uuid.
StagedPath(r, clock, id) ==
  IF r \in {"venv", "pep723"} THEN <<"_temp_", clock>> ELSE <<"fresh", id>>

NoWork == [pc |-> "idle", file |-> <<>>, ran |-> 0]

ConcIdle ==
  /\ now = 0
  /\ nextId = 0
  /\ work = [q \in Reqs |-> NoWork]
  /\ disk = <<>>

\* ------------------------------------------------------------ command lines
\* A word of a command line is a text; a package name is one word.
Word(s) == <<s>>

Words(names) == [i \in DOMAIN names |-> Word(names[i])]

\* Where Deno.makeTempFile puts its files, and the directory the server
\* process was started in.
SystemTemp == <<"/", "t", "m", "p">>

ServerCwd == <<".">>

\* mkSessionDir (part_005 29-35): a fresh directory under the host root.
SessionDir == fsConfig.localPath \o <<"/", "uuid">>

\* The host path of the entry-point file of a request: the temporary file
\* of run_python_code (main.ts 84, 590; part_004 53; part_005 58-65) or the
\* resolved argument of run_python_file (local copies the file into the
\* session directory under its path relative to the root, part_005 225-227).
ScriptPath(r, t) ==
  CASE r \in {"venv", "pep723"} ->
         IF t = "file" THEN ResolveFile(r, path).val
         ELSE fsConfig.localPath \o <<"/", "_temp_.py">>
    [] r = "simple" ->
         IF t = "file" THEN ResolveFile(r, path).val
         ELSE SystemTemp \o <<"/", "tmp.py">>
    [] OTHER ->
         IF t = "file"
         THEN SessionDir \o <<"/">>
                \o Substring(path, Len(fsConfig.mountPoint) + 1)
         ELSE SessionDir \o <<"/", "main.py">>

\* The arguments and the working directory of the interpreter: args:
\* [tempFilePath], cwd: fsConfig.localPath (main.ts 93-98, 157-162);
\* `python ${tempFilePath}` with no cwd (main.ts 598, 640); args of
\* runPython with no cwd (part_004 35-39); args: ['-'], cwd: work with the
\* bootstrap on stdin (part_005 116-127).
InterpreterArgs(r, t) ==
  IF r = "local" THEN <<Word("-")>> ELSE <<ScriptPath(r, t)>>

\* Mutant: no revision sets the working directory.
InterpreterCwd_Inherited(r) == ServerCwd

InterpreterCwd(r) ==
  CASE r = "venv" -> fsConfig.localPath
    [] r = "local" -> SessionDir
    [] OTHER -> ServerCwd

InterpreterCommand(r, t) ==
  [exe |-> Interpreter(r), args |-> "script", argv |-> InterpreterArgs(r, t),
   cwd |-> InterpreterCwd(r)]

\* The package manager's command line: args: ['install', package_name]
\* (part_004 97-98), `pip install ${dependencies.join(' ')}` (main.ts 560-562),
\* [sys.executable, '-m', 'pip', 'install', *deps] run by the bootstrap in
\* its own working directory (part_005 102).
PipArgs(r, names) ==
  IF r = "local"
  THEN <<Word("-m"), Word("pip"), Word("install")>> \o Words(names)
  ELSE <<Word("install")>> \o Words(names)

PipCommand(r, names) ==
  [exe |-> PackageManager(r), args |-> "install", argv |-> PipArgs(r, names),
   cwd |-> IF r = "local" THEN SessionDir ELSE ServerCwd]

\* Mutant: the handler goes on while the process it started still runs.
Awaited_Detached(procs, p) == procs \cup {p}

\* `await cmd.output()` / `await execPromise(...)`: the handler continues
\* when the process has exited (part_004 101, main.ts 562).
Awaited(procs, p) == procs

\* Mutant: the exit code of pip is ignored.
InstallResultOf_IgnoresCode(code) ==
  [status |-> "success", deps |-> <<>>, output |-> SplitLines(PipText),
   error |-> "null"]

\* The answer of install_python_package (part_004 103-105).
InstallResultOf(code) ==
  IF code = 0
  THEN [status |-> "success", deps |-> <<>>, output |-> SplitLines(PipText),
        error |-> "null"]
  ELSE [status |-> "error", deps |-> <<>>, output |-> SplitLines(<<>>),
        error |-> "pipfail"]

\* ------------------------------------------------------------ server state
\* const LogLevels (main.ts 380-389; part_004 75).
LogLevels ==
  <<"debug", "info", "notice", "warning", "error", "critical", "alert",
    "emergency">>

\* LogLevels.indexOf(l).
indexOf(l) == CHOOSE i \in DOMAIN LogLevels : LogLevels[i] = l

NoPost == [sid |-> "-", known |-> FALSE, status |-> "none", handed |-> FALSE]

NoLog == [level |-> "-", at |-> "-", sent |-> FALSE]

\* createServer and runSse have run: empty session table, threshold
\* 'emergency' (main.ts 245, 302, 727, 784; part_004 76, 119; part_005 193,
\* 244).
SrvIdle ==
  /\ transports = {}
  /\ open = {}
  /\ post = NoPost
  /\ setLogLevel = "emergency"
  /\ hpc = "idle"
  /\ logPromises = {}
  /\ awaitedLogs = {}
  /\ pendingLogs = {}
  /\ lastLog = NoLog
  /\ unlinkCb = FALSE

\* ------------------------------------------------------------ actions
ResetRequest ==
  /\ staged' = FALSE
  /\ tmpExists' = FALSE
  /\ unlinkPending' = FALSE
  /\ fault' = "none"
  /\ runs' = 0
  /\ pipCalls' = [n \in Names |-> 0]
  /\ pipExit' = -1
  /\ releases' = 0
  /\ exitCode' = -1
  /\ stdout' = <<>>
  /\ stderr' = ""
  /\ dependencies' = <<>>
  /\ result' = NoResult
  /\ spawned' = {}
  /\ live' = {}
  /\ connected' = TRUE

NoProgram ==
  [imports |-> {}, declared |-> <<>>, behaviour |-> "ok", prints |-> FALSE]

\* The tools a revision registers.
Tools(r) ==
  IF r = "simple" THEN {"code", "file", "install"} ELSE {"code", "file"}

\* A tool call arrives: run_python_code / run_python_local with some code,
\* run_python_file with a path (the file there, if any, holds some code),
\* install_python_package with a name.
StartRequest ==
  /\ UNCHANGED <<pathVars, concVars, srvVars>>
  /\ pc = "idle"
  /\ \E r \in Revisions : \E t \in Tools(r) :
       /\ rev' = r
       /\ tool' = t
       /\ CASE t = "code" ->
                 /\ prog' \in Programs
                 /\ path' = <<>> /\ fileExists' = FALSE /\ pkg' = ""
                 /\ pc' = "stage"
            [] t = "file" ->
                 /\ path' \in FilePaths
                 /\ \E e \in BOOLEAN :
                      /\ fileExists' = e
                      /\ prog' \in (IF e THEN Programs ELSE {NoProgram})
                 /\ pkg' = ""
                 /\ pc' = "resolve"
            [] OTHER ->
                 /\ pkg' \in Names
                 /\ prog' = NoProgram
                 /\ path' = <<>> /\ fileExists' = FALSE
                 /\ pc' = "pip"
  /\ importable0' = importable
  /\ ResetRequest
  /\ UNCHANGED <<pkgClass, importable>>

\* The tool handler has answered and its locals are gone; what the request
\* did to the interpreter's environment stays.
Forget ==
  /\ UNCHANGED <<pathVars, concVars, srvVars>>
  /\ pc = "done"
  /\ ~unlinkPending
  /\ pc' = "idle"
  /\ rev' = "venv"
  /\ tool' = "code"
  /\ path' = <<>>
  /\ fileExists' = FALSE
  /\ pkg' = ""
  /\ prog' = NoProgram
  /\ importable0' = importable
  /\ ResetRequest
  /\ UNCHANGED <<pkgClass, importable>>

\* run_python_file resolves its path and looks for the file (venv 140-149,
\* pep723 623-633, local 222-224, simple 60-62).
Resolve ==
  /\ UNCHANGED <<pathVars, concVars, srvVars>>
  /\ pc = "resolve"
  /\ IF ~ResolveFile(rev, path).ok \/ (ChecksFile(rev) /\ ~fileExists)
     THEN pc' = "done" /\ result' = ResolveFailure(rev)
     ELSE pc' = AfterResolve(rev) /\ result' = result
  /\ UNCHANGED <<rev, callVars, spawned, live, connected, prog, pkgClass, importable, importable0,
                 staged, tmpExists, unlinkPending, fault, runs, pipCalls,
                 pipExit, releases, exitCode, stdout, stderr, dependencies>>

\* The install_python_package handler (simple, part_004 96-108): one pip
\* run for the name, or pip cannot be started and the exception leaves the
\* handler.
InstallPackage ==
  /\ UNCHANGED <<pathVars, concVars, srvVars>>
  /\ pc = "pip"
  /\ pc' = "done"
  /\ \/ LET invs == PipInvocations(<<pkg>>)
        IN /\ pipCalls' = PipCallsAfter(invs)
           /\ pipExit' = PipExitCode(invs)
           /\ importable' = ImportableAfter(invs)
           /\ fault' = fault
           /\ spawned' = spawned \cup {PipCommand(rev, <<pkg>>)}
           /\ live' = Awaited(live, "pip")
           /\ result' = InstallResultOf(PipExitCode(invs))
     \/ /\ fault' = "spawn"
        /\ result' = Threw
        /\ UNCHANGED <<pipCalls, pipExit, importable, spawned, live>>
  /\ UNCHANGED <<rev, callVars, connected, prog, pkgClass, importable0, staged,
                 tmpExists, unlinkPending, runs, releases, exitCode, stdout,
                 stderr, dependencies>>

\* ensureMountDirectoryExists + writeTextFile (venv 78-85, pep723 587-591),
\* makeTempFile + writeTextFile (simple 53-54), mkSessionDir + writes
\* (local 58-65).
Stage ==
  /\ UNCHANGED <<pathVars, concVars, srvVars>>
  /\ pc = "stage"
  /\ \E f \in {"none", "mkdir", "write"} :
       /\ fault' = f
       /\ staged' = StagedOnDisk(rev, f)
       /\ tmpExists' = StagedOnDisk(rev, f)
       /\ IF f = "none"
          THEN pc' = AfterStage(rev) /\ result' = result
          ELSE pc' = "done" /\ result' = StageFailure(rev)
  /\ UNCHANGED <<rev, callVars, spawned, live, connected, prog, pkgClass, importable, importable0,
                 unlinkPending,
                 runs, pipCalls, pipExit, releases, exitCode, stdout, stderr,
                 dependencies>>

\* detectAndInstallDependencies (pep723, main.ts 540-581).
Install ==
  /\ UNCHANGED <<pathVars, concVars, srvVars>>
  /\ pc = "install"
  /\ LET deps == prog.declared
         invs == PipInvocations(deps)
     IN IF deps = <<>>
        THEN /\ pc' = "spawn"
             /\ UNCHANGED <<pipCalls, pipExit, importable, dependencies,
                            result, spawned, live>>
        ELSE /\ pipCalls' = PipCallsAfter(invs)
             /\ pipExit' = PipExitCode(invs)
             /\ importable' = ImportableAfter(invs)
             /\ spawned' = spawned \cup {PipCommand(rev, deps)}
             /\ live' = Awaited(live, "pip")
             /\ IF PipExitCode(invs) = 0
                THEN /\ dependencies' = deps
                     /\ pc' = "spawn"
                     /\ result' = result
                ELSE /\ dependencies' = dependencies
                     /\ pc' = "done"
                     /\ result' = [status |-> "error", deps |-> <<>>,
                                   output |-> <<>>, error |-> "pipfail"]
  /\ UNCHANGED <<rev, callVars, connected, prog, pkgClass, importable0, staged,
                 tmpExists, unlinkPending, fault, runs, releases, exitCode,
                 stdout, stderr>>

\* new Deno.Command(...) / execPromise(`python ...`) starts the interpreter,
\* or fails to (no such executable).
Spawn ==
  /\ UNCHANGED <<pathVars, concVars, srvVars>>
  /\ pc = "spawn"
  /\ \/ /\ runs' = runs + 1
        /\ pc' = "running"
        /\ spawned' = spawned \cup {InterpreterCommand(rev, tool)}
        /\ live' = live \cup {"python"}
        /\ UNCHANGED <<fault, result>>
     \/ /\ fault = "none"
        /\ fault' = "spawn"
        /\ pc' = IF tool = "file" THEN "done" ELSE AfterSpawnFailure(rev)
        /\ result' = SpawnFailure(rev)
        /\ runs' = runs
        /\ spawned' = spawned
        /\ live' = live
  /\ UNCHANGED <<rev, callVars, connected, prog, pkgClass, importable, importable0, staged,
                 tmpExists, unlinkPending, pipCalls, pipExit, releases,
                 exitCode, stdout, stderr, dependencies>>

\* The interpreter runs the staged file and exits (venv, pep723, simple).
Exit ==
  /\ UNCHANGED <<pathVars, concVars, srvVars>>
  /\ pc = "running"
  /\ rev # "local"
  /\ \E o \in ScriptOutcomes(importable) :
       /\ exitCode' = ProcExit(o)
       /\ stderr' = ProcStderr(o)
       /\ stdout' = ProcStdout
       /\ result' = RunResultOf(rev, ProcExit(o), ProcStdout, ProcStderr(o),
                                dependencies)
       /\ pc' = IF tool = "file" THEN "done" ELSE AfterExit(rev, ProcExit(o))
  /\ live' = live \ {"python"}
  /\ UNCHANGED <<rev, callVars, spawned, connected, prog, pkgClass, importable, importable0, staged,
                 tmpExists, unlinkPending, fault, runs, pipCalls, pipExit,
                 releases, dependencies>>

\* The bootstrap script of runLocalPython runs inside python3 and exits
\* (part_005 70-113): find_deps, one pip run for what it found, exec of the
\* code under `except Exception`, then the JSON line.  pip inherits the
\* bootstrap's stdout: what it prints lands before the JSON.
ExitLocal ==
  /\ UNCHANGED <<pathVars, concVars, srvVars>>
  /\ pc = "running"
  /\ rev = "local"
  /\ \E deps \in (IF prog.declared # <<>> THEN {prog.declared}
                  ELSE Orderings(prog.imports \ importable)),
        pipFailPrints \in BOOLEAN :
       LET invs == IF deps = <<>> THEN <<>> ELSE PipInvocations(deps)
           pipPrinted == deps # <<>> /\ (PipExitCode(invs) = 0 \/ pipFailPrints)
           text == (IF pipPrinted THEN PipText ELSE <<>>)
                     \o (IF prog.prints THEN Hello ELSE <<>>)
       IN /\ deps = <<>> => ~pipFailPrints
          /\ PipExitCode(invs) = 0 => ~pipFailPrints
          /\ pipCalls' = PipCallsAfter(invs)
          /\ pipExit' = IF deps = <<>> THEN -1 ELSE PipExitCode(invs)
          /\ importable' = ImportableAfter(invs)
          /\ dependencies' = deps
          /\ spawned' = IF deps = <<>> THEN spawned
                        ELSE spawned \cup {PipCommand(rev, deps)}
          /\ live' = live \ {"python"}
          /\ \E o \in ScriptOutcomes(ImportableAfter(invs)) :
               LET json == o.kind # "exit"
                   out == text \o (IF json THEN JsonLine ELSE <<>>)
               IN /\ exitCode' = IF json THEN 0 ELSE 1
                  /\ stderr' = CASE deps # <<>> /\ PipExitCode(invs) # 0
                                      -> "other"
                                 [] o.kind = "warn" -> "warning"
                                 [] OTHER -> ""
                  /\ stdout' = out
                  /\ result' = LocalResult(out, o, deps)
                  /\ pc' = AfterExit(rev, IF json THEN 0 ELSE 1)
  /\ UNCHANGED <<rev, callVars, connected, prog, pkgClass, importable0, staged,
                 tmpExists, unlinkPending, fault, runs, releases>>

\* The handler removes what it staged and returns the result.
\* venv 107-112 (awaited, failure logged), simple 56 (awaited, failure
\* swallowed), local 144-147 (awaited, failure swallowed); pep723 601-603
\* calls fs.unlink with a callback and returns without waiting for it.
Cleanup ==
  /\ UNCHANGED <<pathVars, concVars, srvVars>>
  /\ pc = "cleanup"
  /\ releases' = releases + 1
  /\ pc' = "done"
  /\ IF rev = "pep723"
     THEN /\ unlinkPending' = TRUE
          /\ UNCHANGED <<tmpExists, fault, result>>
     ELSE /\ unlinkPending' = FALSE
          /\ \/ /\ tmpExists' = FALSE
                /\ fault' = fault
                /\ result' = AfterRemove(result, FALSE)
             \/ /\ fault = "none"
                /\ fault' = "remove"
                /\ tmpExists' = tmpExists
                /\ result' = AfterRemove(result, TRUE)
  /\ UNCHANGED <<rev, callVars, spawned, live, connected, prog, pkgClass, importable, importable0,
                 staged, runs, pipCalls, pipExit, exitCode, stdout, stderr,
                 dependencies>>

\* The callback of fs.unlink runs (pep723 601-603).
UnlinkCallback ==
  /\ UNCHANGED <<pathVars, concVars, srvVars>>
  /\ unlinkPending
  /\ unlinkPending' = FALSE
  /\ \/ /\ tmpExists' = FALSE
        /\ fault' = fault
        /\ result' = AfterRemove(result, FALSE)
     \/ /\ fault = "none"
        /\ fault' = "remove"
        /\ tmpExists' = tmpExists
        /\ result' = AfterRemove(result, TRUE)
  /\ UNCHANGED <<rev, callVars, spawned, live, connected, prog, pkgClass, importable, importable0,
                 staged, pc, runs, pipCalls, pipExit, releases, exitCode,
                 stdout, stderr, dependencies>>

\* ------------------------------------------------------------ specification
InitRequest ==
  /\ tool = "code"
  /\ path = <<>>
  /\ fileExists = FALSE
  /\ pkg = ""
  /\ prog = NoProgram
  /\ importable = {}
  /\ importable0 = {}
  /\ staged = FALSE
  /\ tmpExists = FALSE
  /\ unlinkPending = FALSE
  /\ fault = "none"
  /\ runs = 0
  /\ pipCalls = [n \in Names |-> 0]
  /\ pipExit = -1
  /\ releases = 0
  /\ exitCode = -1
  /\ stdout = <<>>
  /\ stderr = ""
  /\ dependencies = <<>>
  /\ result = NoResult
  /\ spawned = {}
  /\ live = {}
  /\ connected = TRUE

Init ==
  /\ InitRequest
  /\ rev = "venv"
  /\ pc = "idle"
  /\ platform = "linux"
  /\ ConcIdle
  /\ SrvIdle
  /\ pkgClass \in [Names -> PkgClasses]
  /\ fsConfig = DefaultConfig
  /\ mountTable = OverlapTable
  /\ fn = "none"
  /\ arg = <<>>
  /\ ret = NoRet

Next ==
  \/ StartRequest
  \/ Forget
  \/ Resolve
  \/ InstallPackage
  \/ Stage
  \/ Install
  \/ Spawn
  \/ Exit
  \/ ExitLocal
  \/ Cleanup
  \/ UnlinkCallback

Spec == Init /\ [][Next]_vars

\* ------------------------------------------------------------ startup
\* main (main.ts 436-472, 863-898; part_005 276-298) of the revision that
\* was started: the flags become the configuration, then the server waits
\* for requests; main of local throws on a mount flag it does not accept.
\* --mount given without a leading slash.
RelativeMountConfig ==
  [mountPoint |-> <<"x">>, localPath |-> <<"/", "h">>, venvPath |-> <<>>]

Flags == Configs \cup {RelativeMountConfig}

\* The test main of local applies to --mount (part_005 283-285): host and
\* virtual root are not empty and the virtual root starts with a slash.
MountFlagOk(f) ==
  /\ f.localPath # <<>>
  /\ f.mountPoint # <<>>
  /\ f.mountPoint[1] = "/"

\* Which main applies it, and which main takes mount flags at all: the
\* mains of main.ts assign the flags as they come (451-456, 878-881),
\* part_004 157-159 has no such flags.
Validates(r) == r = "local"

TakesMount(r) == r # "simple"

Main ==
  /\ AtStartup(pc)
  /\ \E f \in Flags :
       CASE ~TakesMount(rev) -> pc' = "idle" /\ fsConfig' = fsConfig
         [] TakesMount(rev) /\ Validates(rev) /\ ~MountFlagOk(f) ->
              pc' = "exited" /\ fsConfig' = fsConfig
         [] OTHER -> pc' = "idle" /\ fsConfig' = f
  /\ UNCHANGED <<rev, callVars, prog, pkgClass, importable, importable0,
                 staged, tmpExists, unlinkPending, fault, runs, pipCalls,
                 pipExit, releases, exitCode, stdout, stderr, dependencies,
                 result, spawned, live, connected>>
  /\ UNCHANGED <<platform, mountTable, fn, arg, ret, concVars, srvVars>>

\* The process has loaded the module and main has not run yet.
BootInit ==
  /\ InitRequest
  /\ rev \in Revisions
  /\ pc = "boot"
  /\ platform \in Platforms
  /\ pkgClass \in [Names -> {"ok", "absent"}]
  /\ fsConfig = DefaultConfig
  /\ mountTable = OverlapTable
  /\ fn = "none"
  /\ arg = <<>>
  /\ ret = NoRet
  /\ ConcIdle
  /\ SrvIdle

BootNext == Main \/ Next

BootSpec == BootInit /\ [][BootNext]_vars

\* ------------------------------------------------------------ closed connections
\* The client's connection closes while its request is being handled: the
\* listener drops the transport from the table and does nothing else
\* (main.ts 336-338 and 810, part_004 129, part_005 258).  No handler takes
\* the signal of the request.
Close ==
  /\ connected
  /\ pc \in {"resolve", "pip", "stage", "install", "spawn", "running",
             "cleanup"}
  /\ connected' = FALSE
  /\ UNCHANGED <<rev, callVars, pc, prog, pkgClass, importable, importable0,
                 staged, tmpExists, unlinkPending, fault, runs, pipCalls,
                 pipExit, releases, exitCode, stdout, stderr, dependencies,
                 result, spawned, live>>
  /\ UNCHANGED <<pathVars, concVars, srvVars>>

\* Every package can be installed.
InstallableInit ==
  /\ Init
  /\ pkgClass = [n \in Names |-> "ok"]

CloseNext == Close \/ Next

CloseSpec == InstallableInit /\ [][CloseNext]_vars

\* ------------------------------------------------------------ scheduling
\* The event loop runs every continuation of a handler that is ready, and
\* pip ends; whether the interpreter ever exits is up to the code it runs:
\* `await command.output()` (main.ts 100, part_004 41, part_005 134) and
\* `await execPromise(...)` (main.ts 598) wait for it without a limit.
FairSpec ==
  /\ InstallableInit
  /\ [][Next]_vars
  /\ WF_vars(Resolve)
  /\ WF_vars(InstallPackage)
  /\ WF_vars(Stage)
  /\ WF_vars(Install)
  /\ WF_vars(Spawn)
  /\ WF_vars(Cleanup)
  /\ WF_vars(UnlinkCallback)

\* ------------------------------------------------------------ path specification
\* The path functions applied to enumerated inputs; no request is running.
CallVirtualToLocalPath ==
  /\ fn = "none"
  /\ fn' = "virtualToLocalPath"
  /\ ret' = virtualToLocalPath(arg)
  /\ UNCHANGED <<fsConfig, platform, mountTable, arg, reqVars, concVars, srvVars>>

CallVirtualToLocalPathJoin ==
  /\ fn = "none"
  /\ fn' = "virtualToLocalPathJoin"
  /\ ret' = virtualToLocalPathJoin(arg)
  /\ UNCHANGED <<fsConfig, platform, mountTable, arg, reqVars, concVars, srvVars>>

CallVirtToHost ==
  /\ fn = "none"
  /\ fn' = "virtToHost"
  /\ ret' = virtToHost(arg)
  /\ UNCHANGED <<fsConfig, platform, mountTable, arg, reqVars, concVars, srvVars>>

CallReplaceVirtualPaths ==
  /\ fn = "none"
  /\ fn' = "replaceVirtualPaths"
  /\ ret' = replaceVirtualPaths(arg)
  /\ UNCHANGED <<fsConfig, platform, mountTable, arg, reqVars, concVars, srvVars>>

CallResolveVirtualToHost ==
  /\ fn = "none"
  /\ fn' = "resolveVirtualToHost"
  /\ ret' = resolveVirtualToHost(mountTable, arg)
  /\ UNCHANGED <<fsConfig, platform, mountTable, arg, reqVars, concVars, srvVars>>

CallRoundTrip ==
  /\ fn = "none"
  /\ fn' = "roundTrip"
  /\ ret' = roundTrip(mountTable, arg)
  /\ UNCHANGED <<fsConfig, platform, mountTable, arg, reqVars, concVars, srvVars>>

PathInit ==
  /\ InitRequest
  /\ rev = "venv"
  /\ pc = "idle"
  /\ platform = "linux"
  /\ ConcIdle
  /\ SrvIdle
  /\ pkgClass = [n \in Names |-> "ok"]
  /\ fsConfig = DefaultConfig
  /\ mountTable \in MountTables
  /\ fn = "none"
  /\ arg \in PathInputs
  /\ ret = NoRet

PathNext ==
  \/ CallVirtualToLocalPath
  \/ CallVirtualToLocalPathJoin
  \/ CallVirtToHost
  \/ CallReplaceVirtualPaths
  \/ CallResolveVirtualToHost
  \/ CallRoundTrip

PathSpec == PathInit /\ [][PathNext]_vars

\* ------------------------------------------------------------ concurrent requests
\* Two run_python_code requests served by one server: each handler stages
\* its code, runs the interpreter on the staged path and removes it; the
\* awaits between these steps let the other handler run.
CStage(q) ==
  /\ work[q].pc = "idle"
  /\ LET file == StagedPath(rev, now, nextId)
     IN /\ work' = [work EXCEPT ![q] = [pc |-> "staged", file |-> file,
                                        ran |-> 0]]
        /\ disk' = [f \in DOMAIN disk \cup {file} |->
                      IF f = file THEN q ELSE disk[f]]
  /\ nextId' = IF rev \in {"simple", "local"} THEN nextId + 1 ELSE nextId
  /\ UNCHANGED <<now, reqVars, pathVars, srvVars>>

\* The interpreter of request q reads the staged path: -1 when nothing is
\* there any more.
CRun(q) ==
  /\ work[q].pc = "staged"
  /\ work' = [work EXCEPT ![q].pc = "ran",
                          ![q].ran = IF work[q].file \in DOMAIN disk
                                     THEN disk[work[q].file] ELSE -1]
  /\ UNCHANGED <<now, nextId, disk, reqVars, pathVars, srvVars>>

CRemove(q) ==
  /\ work[q].pc = "ran"
  /\ work' = [work EXCEPT ![q].pc = "returned"]
  /\ disk' = [f \in DOMAIN disk \ {work[q].file} |-> disk[f]]
  /\ UNCHANGED <<now, nextId, reqVars, pathVars, srvVars>>

\* A millisecond passes.
Tick ==
  /\ now < MaxClock
  /\ now' = now + 1
  /\ UNCHANGED <<nextId, work, disk, reqVars, pathVars, srvVars>>

ConcInit ==
  /\ InitRequest
  /\ rev \in Revisions
  /\ pc = "idle"
  /\ platform = "linux"
  /\ pkgClass = [n \in Names |-> "ok"]
  /\ fsConfig = DefaultConfig
  /\ mountTable = OverlapTable
  /\ fn = "none"
  /\ arg = <<>>
  /\ ret = NoRet
  /\ ConcIdle
  /\ SrvIdle

ConcNext ==
  \/ \E q \in Reqs : CStage(q)
  \/ \E q \in Reqs : CRun(q)
  \/ \E q \in Reqs : CRemove(q)
  \/ Tick

ConcSpec == ConcInit /\ [][ConcNext]_vars

\* ------------------------------------------------------------ SSE sessions
\* Session ids the transports draw (randomUUID), and what a client may put
\* into ?sessionId=: an id, nothing, or the name of a member every plain
\* object inherits.
SessionIds == {"s1", "s2", "s3"}

ObjectPrototypeKeys == {"constructor"}

PostIds == SessionIds \cup {""} \cup ObjectPrototypeKeys

\* transports[sessionId] on a table created as {} : an own entry, else a
\* member inherited from Object.prototype, else undefined.
Lookup(table, sid) ==
  CASE sid \in table -> "transport"
    [] sid \in ObjectPrototypeKeys -> "inherited"
    [] OTHER -> "undefined"

\* delete transports[transport.sessionId] (main.ts 337, 811; part_004 129;
\* part_005 258).
AfterClose(table, sid) == table \ {sid}

\* GET /sse: a transport with a fresh id is entered into the table
\* (main.ts 332-333, 808-809; part_004 127-128; part_005 256-257).
OpenSse ==
  /\ \E s \in SessionIds \ open :
       /\ transports' = transports \cup {s}
       /\ open' = open \cup {s}
  /\ UNCHANGED <<post, logVars, reqVars, pathVars, concVars>>

\* The connection of a session closes.
CloseSse ==
  /\ \E s \in open :
       /\ open' = open \ {s}
       /\ transports' = AfterClose(transports, s)
  /\ UNCHANGED <<post, logVars, reqVars, pathVars, concVars>>

\* POST /messages?sessionId=sid.  venv and simple answer 200 to whatever
\* the lookup finds and hand nothing on (main.ts 345-354, part_004
\* 132-135); pep723 and local call handlePostMessage on what they found
\* (main.ts 814-820, part_005 260-264), which throws when that is not a
\* transport.
PostMessage ==
  /\ \E sid \in PostIds :
       LET found == Lookup(transports, sid)
       IN post' =
            [sid |-> sid,
             known |-> sid \in transports,
             status |->
               CASE found = "undefined" -> "400"
                 [] rev \in {"venv", "simple"} -> "200"
                 [] found = "transport" -> "202"
                 [] OTHER -> "threw",
             handed |-> rev \in {"pep723", "local"} /\ found = "transport"]
  /\ UNCHANGED <<transports, open, logVars, reqVars, pathVars, concVars>>

SseNext == OpenSse \/ CloseSse \/ PostMessage

SseSpec == ConcInit /\ [][SseNext]_vars

\* ------------------------------------------------------------ logging
\* How many messages the handler itself logs in one request.
MaxLogs == 2

LogIds == 1..MaxLogs

\* The send started by the callback of fs.unlink.
CallbackLog == 0

\* The levels the code of a revision logs at (main.ts 91, 111, 155; 556-572,
\* 597, 602, 639; part_004 85, 91; part_005 134).
HandlerLevels(r) ==
  CASE r = "venv" -> {"info", "warning"}
    [] r = "pep723" -> {"info", "warning", "error"}
    [] r = "simple" -> {"debug"}
    [] OTHER -> {"warning"}

\* Mutant: only levels above the threshold are sent.
Sends_Above(l, threshold) == indexOf(l) > indexOf(threshold)

\* LogLevels.indexOf(level) >= LogLevels.indexOf(setLogLevel) (main.ts 260,
\* 282, 742, 764; part_004 79; part_005 200).
Sends(l, threshold) == indexOf(l) >= indexOf(threshold)

\* The handlers of main.ts push the promise of the send onto logPromises
\* (261, 283, 743, 765); part_004 80 and part_005 201 let it go.
Collects(r) == r \in {"venv", "pep723"}

\* logger(level, data), the send being number id.
CallLogger(id, l) ==
  /\ lastLog' = [level |-> l, at |-> setLogLevel,
                 sent |-> Sends(l, setLogLevel)]
  /\ pendingLogs' = IF Sends(l, setLogLevel) THEN pendingLogs \cup {id}
                    ELSE pendingLogs
  /\ logPromises' = IF Sends(l, setLogLevel) /\ Collects(rev)
                    THEN logPromises \cup {id} ELSE logPromises

\* The handler of logging/setLevel (main.ts 247-250, part_004 77,
\* part_005 194-197).
SetLevel ==
  /\ \E l \in Range(LogLevels) : setLogLevel' = l
  /\ UNCHANGED <<hpc, logPromises, awaitedLogs, pendingLogs, lastLog,
                 unlinkCb, sseVars, reqVars, pathVars, concVars>>

\* A tool handler starts (main.ts 257-258, 279-280, 739-740, 761-762).
LStart ==
  /\ hpc = "idle"
  /\ hpc' = "running"
  /\ UNCHANGED <<setLogLevel, logPromises, awaitedLogs, pendingLogs,
                 lastLog, unlinkCb, sseVars, reqVars, pathVars, concVars>>

\* runPythonCode / runPythonFile logs something.
LLog ==
  /\ hpc = "running"
  /\ \E id \in LogIds \ (logPromises \cup pendingLogs) :
       /\ \A j \in LogIds \ (logPromises \cup pendingLogs) : id <= j
       /\ \E l \in HandlerLevels(rev) : CallLogger(id, l)
  /\ UNCHANGED <<setLogLevel, hpc, awaitedLogs, unlinkCb, sseVars, reqVars,
                 pathVars, concVars>>

\* runPythonCode / runPythonFile resolves.  The handlers of main.ts go on
\* to `await Promise.all(logPromises)` (266, 288, 748, 770), which waits
\* for what the array holds at that moment; runPythonCode of pep723 has
\* called fs.unlink on its success path (601-603) and the callback is
\* still to come.  The handlers of part_004 and part_005 return at once.
LFinish ==
  /\ hpc = "running"
  /\ hpc' = IF Collects(rev) THEN "flushing" ELSE "returned"
  /\ awaitedLogs' = IF Collects(rev) THEN logPromises ELSE awaitedLogs
  /\ unlinkCb' \in (IF rev = "pep723" THEN BOOLEAN ELSE {FALSE})
  /\ UNCHANGED <<setLogLevel, logPromises, pendingLogs, lastLog, sseVars,
                 reqVars, pathVars, concVars>>

\* The callback of fs.unlink runs: `if (err) log('warning', ...)`
\* (main.ts 601-603).
LUnlinkCallback ==
  /\ unlinkCb
  /\ unlinkCb' = FALSE
  /\ \/ UNCHANGED <<lastLog, pendingLogs, logPromises>>
     \/ CallLogger(CallbackLog, "warning")
  /\ UNCHANGED <<setLogLevel, hpc, awaitedLogs, sseVars, reqVars, pathVars,
                 concVars>>

\* A send finishes: the promise of sendLoggingMessage resolves.
LSent ==
  /\ \E id \in pendingLogs : pendingLogs' = pendingLogs \ {id}
  /\ UNCHANGED <<setLogLevel, hpc, logPromises, awaitedLogs, lastLog,
                 unlinkCb, sseVars, reqVars, pathVars, concVars>>

\* Mutant: the handler does not wait for the sends.
Settled_NoWait(awaited, pending) == TRUE

\* `await Promise.all(logPromises)` lets the handler go on when every send
\* it was called with has finished (main.ts 266, 288, 748, 770).
Settled(awaited, pending) == awaited \cap pending = {}

\* Promise.all has resolved and the handler returns its result.
LReturn ==
  /\ hpc = "flushing"
  /\ Settled(awaitedLogs, pendingLogs)
  /\ hpc' = "returned"
  /\ UNCHANGED <<setLogLevel, logPromises, awaitedLogs, pendingLogs, lastLog,
                 unlinkCb, sseVars, reqVars, pathVars, concVars>>

\* The request is over and its locals are gone.
LForget ==
  /\ hpc = "returned"
  /\ ~unlinkCb
  /\ hpc' = "idle"
  /\ logPromises' = {}
  /\ awaitedLogs' = {}
  /\ pendingLogs' = {}
  /\ lastLog' = NoLog
  /\ UNCHANGED <<setLogLevel, unlinkCb, sseVars, reqVars, pathVars, concVars>>

LogNext ==
  \/ SetLevel
  \/ LStart
  \/ LLog
  \/ LFinish
  \/ LUnlinkCallback
  \/ LSent
  \/ LReturn
  \/ LForget

LogSpec == ConcInit /\ [][LogNext]_vars

\* ------------------------------------------------------------ claims
\* C1 (as stated): once a code-execution request has returned, the temp
\* file / session directory it staged is no longer on disk, whether the
\* interpreter exited 0 or non-zero.  Stated for requests without an I/O
\* fault and after any pending unlink callback has run.
C1_StagedFileGoneAfterReturn ==
  (pc = "done" /\ exitCode \in {0, 1} /\ fault = "none" /\ ~unlinkPending)
    => ~tmpExists

\* C2 (as stated): the temp file / workspace of a request is released
\* exactly once on every way out of the handler, exceptions while staging,
\* spawning or installing included.
C2_ReleasedExactlyOnce ==
  (pc = "done" /\ staged) => releases = 1

\* Some import of the request's code can never be satisfied: every run of
\* it ends in a missing-dependency diagnostic.
AlwaysMissing ==
  \E n \in prog.imports : n \notin importable0 /\ pkgClass[n] # "ok"

\* C3: a request never spawns the interpreter more than 5 times, and a
\* request whose code fails with a missing dependency on every run ends
\* Failed.
C3_RunAttemptsWithinCeiling ==
  /\ runs <= 5
  /\ (pc = "done" /\ runs >= 1 /\ AlwaysMissing) => result.status \in Failure

C3_Witness ==
  /\ pc = "done"
  /\ AlwaysMissing
  /\ runs = 1
  /\ exitCode = 1
  /\ stderr \in Names
  /\ result.status \in Failure

\* C4: within one request no name is handed to pip more than once, and a
\* request whose code still misses a name after pip reported success for it
\* ends Failed after exactly one install of that name.
C4_NoNameInstalledTwice ==
  \A n \in Names :
    /\ pipCalls[n] <= 1
    /\ (pc = "done" /\ pipCalls[n] >= 1 /\ pipExit = 0
        /\ n \in prog.imports /\ pkgClass[n] = "stubborn")
         => (result.status \in Failure /\ pipCalls[n] = 1)

C4_Witness ==
  \E n \in Names :
    /\ pc = "done"
    /\ pipCalls[n] = 1
    /\ pipExit = 0
    /\ Count(prog.declared, n) = 2
    /\ n \in prog.imports
    /\ pkgClass[n] = "stubborn"
    /\ runs = 1
    /\ result.status \in Failure

\* C5 (as stated): a request whose code misses one dependency that installs
\* and then imports ends with status success and that dependency exactly
\* once in the reported dependencies.  Stated for the revisions that
\* install dependencies at all and for run_python_code requests without
\* an I/O fault.
C5_InstallThenSucceed ==
  (pc = "done" /\ tool = "code" /\ fault = "none"
   /\ rev \in {"pep723", "local"})
    => \A n \in Names :
         (/\ prog.imports = {n}
          /\ n \notin importable0
          /\ pkgClass[n] = "ok"
          /\ prog.behaviour = "ok"
          /\ prog.declared \in {<<>>, <<n>>})
           => (result.status = "success" /\ Count(result.deps, n) = 1)

\* C6 (as stated): a request whose code needs a dependency that pip cannot
\* install ends with status Failure and the attempted name exactly once in
\* the reported dependencies, after a single install attempt.
C6_FailedInstallReported ==
  (pc = "done" /\ fault = "none")
    => \A n \in Names :
         (/\ n \in prog.imports
          /\ n \notin importable0
          /\ pkgClass[n] = "absent"
          /\ pipCalls[n] >= 1
          /\ Count(prog.declared, n) <= 1)
           => (/\ result.status \in Failure
               /\ Count(result.deps, n) = 1
               /\ pipCalls[n] = 1)

\* C7 (as stated): a non-zero interpreter exit whose stderr is no
\* missing-dependency diagnostic is not retried and is reported as a
\* Failure result.
C7_OtherFailureNotRetried ==
  (pc = "done" /\ exitCode = 1 /\ stderr \notin Names)
    => (runs = 1 /\ result.status \in Failure)

\* A mount prefix covers a path equal to it or continuing it after "/".
UnderMount(virtualPath) ==
  Covers([virtualPrefix |-> fsConfig.mountPoint], virtualPath)

\* C8 (as stated): virtual-to-host resolution fails for every path that is
\* neither the mount prefix nor the prefix followed by a separator;
\* "/working2/x" is rejected under the mount "/working".
C8_OutsideMountsRejected ==
  (fn \in {"virtualToLocalPath", "virtualToLocalPathJoin", "virtToHost"}
   /\ ~UnderMount(arg))
    => ~ret.ok

\* C9: with the mounts "/working" -> A and "/working/data" -> B, in either
\* configured order, "/working/data/x.csv" resolves to "B/x.csv" and
\* "/working/other.txt" to "A/other.txt"; in general the covering entry with
\* the longest virtual prefix decides the result.
C9_LongestPrefixWins ==
  fn = "resolveVirtualToHost" =>
    /\ (Range(mountTable) = Range(OverlapTable) /\ arg = DataXCsv)
         => ret = Ok(<<"B", "/", "x", ".", "c", "s", "v">>)
    /\ (Range(mountTable) = Range(OverlapTable) /\ arg = OtherTxt)
         => ret = Ok(<<"A", "/", "o", "t", "h", "e", "r", ".", "t", "x", "t">>)
    /\ \A i \in DOMAIN mountTable :
         Covers(mountTable[i], arg) =>
           /\ ret.ok
           /\ \E j \in DOMAIN mountTable :
                /\ Covers(mountTable[j], arg)
                /\ Len(mountTable[j].virtualPrefix)
                     >= Len(mountTable[i].virtualPrefix)
                /\ ret.val = mountTable[j].hostPath
                     \o Substring(arg, Len(mountTable[j].virtualPrefix))

C9_Witness ==
  /\ fn = "resolveVirtualToHost"
  /\ mountTable = OverlapTable
  /\ arg = DataXCsv
  /\ ret = Ok(<<"B", "/", "x", ".", "c", "s", "v">>)

\* The mount prefix occurs in the text at i and is followed by a separator
\* or by the end of the text.
BoundedAt(text, i) ==
  /\ OccursAt(text, fsConfig.mountPoint, i)
  /\ \/ i + Len(fsConfig.mountPoint) > Len(text)
     \/ text[i + Len(fsConfig.mountPoint)] = "/"

\* C10 (as stated): replaceVirtualPaths rewrites the mount prefix only
\* where a separator or the end of the text follows it; a text in which no
\* occurrence is so bounded ("/working2") comes back unchanged.
C10_ReplaceRespectsBoundary ==
  (fn = "replaceVirtualPaths" /\ \A i \in DOMAIN arg : ~BoundedAt(arg, i))
    => ret = Ok(arg)

\* C11 (as stated): resolving a virtual path equal to the mount's virtual
\* prefix succeeds and yields exactly the mount's host root, with nothing
\* appended.
C11_ExactPrefixGivesHostRoot ==
  (fn \in {"virtualToLocalPath", "virtualToLocalPathJoin", "virtToHost"}
   /\ arg = fsConfig.mountPoint)
    => ret = Ok(fsConfig.localPath)

\* No binding of the table lies inside another: neither its virtual prefix
\* nor its host path is covered by the other's.
NonOverlapping(table) ==
  \A i, j \in DOMAIN table :
    i # j => /\ ~Covers(table[i], table[j].virtualPrefix)
             /\ ~CoversHost(table[i], table[j].hostPath)

C13_ExitZeroIsSuccess ==
  (pc = "done" /\ exitCode = 0 /\ fault = "none")
    => /\ result.status = "success"
       /\ rev # "local" => result.output = SplitLines(stdout)
       /\ result.error = "null"
       /\ (\A n \in Names : pipCalls[n] = 0) => result.deps = <<>>

\* C14 (as stated): whenever the interpreter exits non-zero, the result has
\* a failure status, its error is the (non-null) stderr text of that run,
\* and it carries the dependencies installed so far in the request.  Stated
\* for the handlers that read the exit code of `python <file>` and for
\* requests without an I/O fault; the dependencies are compared in the
\* revision that installs any.
C14_NonZeroExitIsFailure ==
  (pc = "done" /\ exitCode \notin {-1, 0} /\ fault = "none" /\ rev # "local")
    => /\ result.status \in Failure
       /\ result.error # "null"
       /\ stderr # "" => result.error = stderr
       /\ rev = "pep723"
            => \A n \in Names :
                 (pipCalls[n] >= 1 /\ pipExit = 0) => n \in Range(result.deps)

\* Something went wrong in the request: an I/O fault while staging or
\* spawning, a path the mount does not cover or a file that is not there, a
\* failed pip run, a non-zero exit of the interpreter.
RequestError ==
  \/ fault \in {"mkdir", "write", "spawn"}
  \/ tool = "file" /\ (~UnderMount(path) \/ ~fileExists)
  \/ pipExit = 1
  \/ exitCode \notin {-1, 0}

\* C15 (as stated): every error in a request is returned to the caller as
\* a result with a failure status and a non-null error; none leaves the
\* run_python_code / run_python_file / install_python_package handlers as
\* an uncaught exception.
C15_ErrorsAreResults ==
  (pc = "done" /\ RequestError)
    => /\ result.status # "threw"
       /\ result.status \in Failure
       /\ result.error # "null"

\* C16 (as stated): when staging fails for run_python_file (the path is
\* outside the mount, or the file is not there), the request ends Failed
\* with the originating error and neither the interpreter nor pip is ever
\* started for it.  Stated for the revisions that have a mount; an
\* exception that carries the originating error out of the handler counts
\* as Failed here.
C16_FailedStagingSpawnsNothing ==
  (tool = "file" /\ rev # "simple" /\ (~UnderMount(path) \/ ~fileExists))
    => /\ runs = 0
       /\ \A n \in Names : pipCalls[n] = 0
       /\ pc = "done" => (/\ result.status \in Failure \cup {"threw"}
                          /\ result.error # "null")

\* C17: a failure to remove the temp file / session directory never
\* changes the request's result: across the step in which the removal
\* fails the result stays the one computed from the interpreter run, and
\* the request has returned it.
C17_CleanupFailureKeepsResult ==
  [][(fault # "remove" /\ fault' = "remove")
       => (result' = result /\ pc' = "done")]_vars

C17_Witness ==
  /\ pc = "done"
  /\ fault = "remove"
  /\ tmpExists
  /\ releases = 1
  /\ exitCode = 0
  /\ result.status = "success"
  /\ result.output = SplitLines(Hello)

InFlight(q) == work[q].pc \in {"staged", "ran"}

\* C18 (as stated): two code-execution requests in flight together use
\* distinct staged paths, also when both start within one tick of
\* Date.now().
C18_DistinctStagedPaths ==
  \A a, b \in Reqs :
    (a # b /\ InFlight(a) /\ InFlight(b)) => work[a].file # work[b].file

\* C19: the mount / environment configuration is assigned only during
\* startup in main; no path resolution and no tool request changes it, in
\* any sequence of requests.
C19_ConfigSetOnlyAtStartup ==
  [][fsConfig' # fsConfig => pc = "boot"]_vars

C19_Witness ==
  /\ pc = "done"
  /\ fsConfig = VenvConfig
  /\ tool = "file"
  /\ path = InsideFile
  /\ runs = 1
  /\ result.status = "success"

\* C20: if a venv path is configured every run uses the interpreter inside
\* that environment (<venv>/bin/python, <venv>\Scripts\python.exe on
\* Windows), otherwise the ambient python found by name; and no request
\* starts anything but the interpreter on a script and the package manager
\* on an install, so none creates or deletes the environment.  --venv
\* exists in the venv revision only.
C20_EnvironmentSelection ==
  \A c \in spawned :
    /\ c.args \in {"script", "install"}
    /\ (c.args = "script" /\ rev = "venv" /\ fsConfig.venvPath # <<>>)
         => c.exe = fsConfig.venvPath
                    \o (IF platform = "windows"
                        THEN <<"\\", "S", "c", "r", "i", "p", "t", "s",
                               "\\", "p", "y", "t", "h", "o", "n", ".", "e",
                               "x", "e">>
                        ELSE <<"/", "b", "i", "n", "/", "p", "y", "t", "h",
                               "o", "n">>)
    /\ (c.args = "script" /\ fsConfig.venvPath = <<>>)
         => c.exe \in {Python, Python3}

C20_Witness ==
  /\ pc = "done"
  /\ rev = "venv"
  /\ platform = "windows"
  /\ fsConfig.venvPath = <<"/", "v">>
  /\ Cardinality(spawned) = 1
  /\ \A c \in spawned :
       /\ c.args = "script"
       /\ c.exe = <<"/", "v", "\\", "S", "c", "r", "i", "p", "t", "s",
                    "\\", "p", "y", "t", "h", "o", "n", ".", "e", "x", "e">>

\* C21: an install_python_package request whose package manager could be
\* started has run it exactly once, as `install <name>`, has started no
\* interpreter and has not run it again; it answers success with a null
\* error exactly when the exit code is 0, and error with a text otherwise.
C21_InstallRunsPipOnce ==
  (pc = "done" /\ tool = "install" /\ fault = "none") =>
    /\ pipCalls = [n \in Names |-> IF n = pkg THEN 1 ELSE 0]
    /\ runs = 0
    /\ Cardinality(spawned) = 1
    /\ \A c \in spawned :
         /\ c.args = "install"
         /\ c.exe = Pip
         /\ c.argv = <<Word("install"), Word(pkg)>>
    /\ (result.status = "success" /\ result.error = "null") <=> pipExit = 0
    /\ pipExit # 0 =>
         (result.status = "error" /\ result.error \notin {"null", ""})

C21_Witness ==
  /\ pc = "done"
  /\ tool = "install"
  /\ fault = "none"
  /\ pipExit # 0
  /\ pipCalls[pkg] = 1
  /\ result.status = "error"

\* What python writes to stderr when it has something to say: a traceback,
\* a warning and "can't open file" all name the script by the path the
\* interpreter was started with.
StderrText(err, script) ==
  IF err = "" THEN <<>> ELSE script \o <<":", err>>

\* The text of the answer's error field.  venv, pep723 and simple hand the
\* interpreter's stderr on as it is (main.ts 104 and 125, 609 and 613,
\* part_004 43-46); local answers with what its bootstrap formatted from
\* the exception (part_005 105-110), where the code is known by its name in
\* the session directory.
ReturnedError ==
  CASE result.error \in {"null", ""} -> <<>>
    [] rev # "local" /\ result.error = stderr ->
         StderrText(stderr, ScriptPath(rev, tool))
    [] OTHER -> <<result.error>>

Mentions(text, p) == \E i \in 1..Len(text) : OccursAt(text, p, i)

\* C22: no answer shows the caller a host path: the error text of a
\* finished request does not contain the host directory of the mount.
C22_NoHostPathInAnswer ==
  pc = "done" => ~Mentions(ReturnedError, fsConfig.localPath)

\* C23: once the connection of a request has closed, no subprocess of the
\* request is left running.
C23_AbortEndsSubprocess ==
  ~connected => live = {}

\* C24: every run attempt is bounded: a request whose interpreter has been
\* started gets past that run, whether or not the interpreter ends by
\* itself.
C24_RunAttemptBounded ==
  (pc = "running") ~> (pc \in {"cleanup", "done"})

\* C25: a request moves Staging -> Running -> {Succeeded, Classifying} ->
\* {Installing -> Running, Failed} and along no other edge: the package
\* manager of a run_python_code request runs only after a run attempt.
C25_InstallOnlyAfterRun ==
  [][(tool = "code" /\ \E n \in Names : pipCalls'[n] > pipCalls[n])
       => runs >= 1]_vars

C28_CommandLines ==
  \A c \in spawned :
    /\ c.args = "script" => c.argv = <<ScriptPath(rev, tool)>>
    /\ c.args = "install" =>
         \E k \in DOMAIN c.argv :
           /\ c.argv[k] = Word("install")
           /\ k < Len(c.argv)
           /\ \A j \in (k + 1)..Len(c.argv) :
                c.argv[j] \in {Word(n) : n \in Names}

\* C29: the server never serves requests under a mount whose host path is
\* empty or whose virtual prefix is empty or not absolute.
C29_ServesOnlyValidMount ==
  pc \notin {"boot", "exited"} => MountFlagOk(fsConfig)

\* C30: from the moment a request has staged its code until its interpreter
\* has read and run it, the staged file is on disk and holds that request's
\* code: no step of any request removes or overwrites it in between.
C30_StagedFileIntact ==
  \A q \in Reqs :
    work[q].pc = "staged" =>
      /\ work[q].file \in DOMAIN disk
      /\ disk[work[q].file] = q

\* The package manager runs a request has made.
PipRuns == {c \in spawned : c.args = "install"}

C32_SessionTable ==
  /\ transports = open
  /\ (post.status # "none" /\ ~post.known) =>
       (post.status = "400" /\ ~post.handed)

\* The order of the levels as the claim gives it.
AtOrAbove(l, threshold) ==
  LET order == <<"debug", "info", "notice", "warning", "error", "critical",
                 "alert", "emergency">>
      rank(x) == CHOOSE i \in DOMAIN order : order[i] = x
  IN rank(l) >= rank(threshold)

\* C33: a message is sent exactly when its level is at or above the
\* threshold of the moment; the threshold starts at emergency and a step
\* that changes it is a set-level request and touches no tool request.
C33_LogThreshold ==
  /\ setLogLevel = "emergency"
  /\ [](lastLog # NoLog =>
          (lastLog.sent <=> AtOrAbove(lastLog.level, lastLog.at)))
  /\ [][setLogLevel' # setLogLevel =>
          UNCHANGED <<hpc, logPromises, awaitedLogs, pendingLogs, lastLog,
                      unlinkCb, reqVars>>]_vars

C33_Witness ==
  /\ hpc = "running"
  /\ setLogLevel = "warning"
  /\ lastLog = [level |-> "warning", at |-> "warning", sent |-> TRUE]

====
